---- MODULE Spec2Model ----
(***************************************************************************)
(* Model of 20250916_laserpower_combiner_plotting.py: the extraction of    *)
(* the "Result table values" table from a calibration log                  *)
(* (read_power_instruction_table), the outer-join merge of the tables of   *)
(* one wavelength (combine_group), the chart of a wavelength               *)
(* (plot_wavelength_data) and the batch run (main).                        *)
(*                                                                         *)
(* Python strings are sequences of one-character strings, so that split,   *)
(* strip, startswith and "in" are computed as the code computes them.      *)
(* Python dicts are sequences of [k, v] records in insertion order.        *)
(***************************************************************************)
EXTENDS Integers, Sequences, FiniteSets, TLC

VARIABLES
    lines,        \* read_power_instruction_table: the lines of the file read
    rd,           \* read_power_instruction_table: its outcome, or NoResult
    dfs_dict,     \* combine_group: its argument, the tables of one wavelength
    combined,     \* combine_group: its outcome, or NoResult
    chart,        \* plot_wavelength_data: the chart drawn from combined
    folder,       \* main: the input folder, files in the order glob lists them
    openpyxl,     \* main: whether "import openpyxl" succeeds
    pc,           \* main: the statement the run is at
    files,        \* main: files
    dfs,          \* main: dfs
    grouped,      \* main: grouped
    combined_all, \* main: combined_all
    nplotted,     \* plot_wavelength_data: groups of combined_all already drawn
    written,      \* main: the outputs written so far, in order
    failure       \* main: the exception that ended the run, or "none"

readVars == <<lines, rd>>
groupVars == <<dfs_dict, combined, chart>>
mainVars == <<folder, openpyxl, pc, files, dfs, grouped, combined_all,
              nplotted, written, failure>>
vars == <<lines, rd, dfs_dict, combined, chart, folder, openpyxl, pc, files,
          dfs, grouped, combined_all, nplotted, written, failure>>

NoResult == [none |-> TRUE]

(***************************************************************************)
(* Bounds of the model.                                                    *)
(***************************************************************************)
MaxLines == 4      \* lines of a file handed to the extractor
MaxFiles == 2      \* tables in a group handed to combine_group
MaxRows == 3       \* rows of all the tables of that group together
MaxKey == 3        \* key values of those rows are 1..MaxKey
MaxFolder == 3     \* files in the input folder of a run

(***************************************************************************)
(* Python str and list operations.                                         *)
(***************************************************************************)
Whitespace == {" ", "\t", "\n"}
Digits == {"0", "1", "2", "3", "4", "5", "6", "7", "8", "9"}
UpperCase == <<"A", "B", "C", "D", "E", "F", "G", "H", "I", "J", "K", "L", "M",
               "N", "O", "P", "Q", "R", "S", "T", "U", "V", "W", "X", "Y", "Z">>
LowerCase == <<"a", "b", "c", "d", "e", "f", "g", "h", "i", "j", "k", "l", "m",
               "n", "o", "p", "q", "r", "s", "t", "u", "v", "w", "x", "y", "z">>

\* s[i:] with a 1-based i
From(s, i) == SubSeq(s, i, Len(s))

\* str.strip()
Strip(s) ==
    LET keep == {i \in 1..Len(s) : s[i] \notin Whitespace}
    IN  IF keep = {} THEN <<>>
        ELSE SubSeq(s, CHOOSE i \in keep : \A j \in keep : i <= j,
                       CHOOSE i \in keep : \A j \in keep : j <= i)

\* str.lower()
Lower(s) ==
    [i \in 1..Len(s) |->
        IF \E k \in 1..26 : UpperCase[k] = s[i]
        THEN LowerCase[CHOOSE k \in 1..26 : UpperCase[k] = s[i]]
        ELSE s[i]]

\* str.startswith(p)
StartsWith(s, p) == Len(p) <= Len(s) /\ SubSeq(s, 1, Len(p)) = p

\* sub in s
Contains(s, sub) ==
    \E i \in 1..(Len(s) - Len(sub) + 1) : SubSeq(s, i, i + Len(sub) - 1) = sub

\* str.split(d) for a one-character d: always at least one piece
RECURSIVE Split(_, _)
Split(s, d) ==
    LET at == {i \in 1..Len(s) : s[i] = d}
    IN  IF at = {} THEN <<s>>
        ELSE LET i == CHOOSE k \in at : \A j \in at : k <= j
             IN  <<SubSeq(s, 1, i - 1)>> \o Split(From(s, i + 1), d)

\* int(s) for a string of decimal digits
DigitValue(c) == CHOOSE n \in 0..9 : <<"0", "1", "2", "3", "4", "5", "6", "7", "8", "9">>[n + 1] = c
RECURSIVE ParseInt(_)
ParseInt(s) ==
    IF Len(s) = 0 THEN 0
    ELSE 10 * ParseInt(SubSeq(s, 1, Len(s) - 1)) + DigitValue(s[Len(s)])
IsDigits(s) == Len(s) > 0 /\ \A i \in 1..Len(s) : s[i] \in Digits

\* the elements of a set of integers as an ascending sequence
RECURSIVE Ascending(_)
Ascending(S) ==
    IF S = {} THEN <<>>
    ELSE LET m == CHOOSE x \in S : \A y \in S : x <= y
         IN  <<m>> \o Ascending(S \ {m})

Range(s) == {s[i] : i \in 1..Len(s)}

(***************************************************************************)
(* The fixed strings of the program.                                       *)
(***************************************************************************)
MARKER == <<"R", "e", "s", "u", "l", "t", " ", "t", "a", "b", "l", "e", " ",
            "v", "a", "l", "u", "e", "s">>
TIME == <<"t", "i", "m", "e">>
POWER_INSTRUCTION == <<"p", "o", "w", "e", "r", "_", "i", "n", "s", "t", "r",
                       "u", "c", "t", "i", "o", "n">>
KEY == <<"p", "o", "w", "e", "r", "_", "p", "e", "r", "c", "e", "n", "t", "a",
         "g", "e", "_", "v", "a", "l", "u", "e", "s">>
US_POWER == <<"_", "p", "o", "w", "e", "r">>
US_ERROR == <<"_", "e", "r", "r", "o", "r">>

(***************************************************************************)
(* pandas values.  A cell is text [str |-> s], a number [num |-> n] or     *)
(* missing [nan |-> TRUE] (None/NaN).  A DataFrame is                      *)
(* [columns |-> names, rows |-> rows], each row aligned with columns.      *)
(***************************************************************************)
NaN == [nan |-> TRUE]
Text(s) == [str |-> s]
Num(n) == [num |-> n]
IsNum(c) == DOMAIN c = {"num"}
IsNaN(c) == DOMAIN c = {"nan"}
IsText(c) == DOMAIN c = {"str"}

Failed(e) == [error |-> e]
IsFailed(r) == DOMAIN r = {"error"}
IsFrame(r) == DOMAIN r = {"columns", "rows"}

\* pd.DataFrame(data, columns=header) for a list of lists of str: rows shorter
\* than the longest are padded with None; the longest must be as long as header
DataFrame(data, header) ==
    IF Len(data) = 0 THEN [columns |-> header, rows |-> <<>>]
    ELSE LET w == CHOOSE n \in {Len(data[i]) : i \in 1..Len(data)} :
                      \A i \in 1..Len(data) : Len(data[i]) <= n
         IN  IF w # Len(header) THEN Failed("ShapeError")
             ELSE [columns |-> header,
                   rows |-> [i \in 1..Len(data) |->
                       [j \in 1..w |-> IF j <= Len(data[i]) THEN Text(data[i][j])
                                       ELSE NaN]]]

\* what pd.to_numeric makes of one value: integers only, the empty string is NaN
Parses(c) ==
    \/ IsNaN(c)
    \/ IsText(c) /\ \/ c.str = <<>>
                    \/ IsDigits(c.str)
                    \/ Len(c.str) > 1 /\ c.str[1] = "-" /\ IsDigits(Tail(c.str))
Parsed(c) ==
    IF IsNaN(c) \/ c.str = <<>> THEN NaN
    ELSE IF c.str[1] = "-" THEN Num(0 - ParseInt(Tail(c.str)))
    ELSE Num(ParseInt(c.str))

\* for col in df.columns: try df[col] = pd.to_numeric(df[col]) except: pass.
\* df[col] of a repeated column name is a DataFrame, which raises TypeError.
ToNumeric(df) ==
    LET unique(j) == \A k \in 1..Len(df.columns) : df.columns[k] = df.columns[j] => k = j
        numeric(j) == unique(j) /\ \A i \in 1..Len(df.rows) : Parses(df.rows[i][j])
    IN  [columns |-> df.columns,
         rows |-> [i \in 1..Len(df.rows) |->
             [j \in 1..Len(df.columns) |->
                 IF numeric(j) THEN Parsed(df.rows[i][j]) ELSE df.rows[i][j]]]]

\* df.rename(columns={old: new})
RenameColumn(df, old, new) ==
    [columns |-> [j \in 1..Len(df.columns) |->
                     IF df.columns[j] = old THEN new ELSE df.columns[j]],
     rows |-> df.rows]

(***************************************************************************)
(* read_power_instruction_table                                            *)
(***************************************************************************)
\* for i, line in enumerate(lines): if "Result table values" in line: the
\* 1-based position of the first such line, 0 when there is none
MarkerLine(ls) ==
    LET at == {i \in 1..Len(ls) : Contains(ls[i], MARKER)}
    IN  IF at = {} THEN 0 ELSE CHOOSE i \in at : \A j \in at : i <= j

\* a variant of EndsTable that compares "time" without lower()
EndsTable_CaseSensitive(line) ==
    \/ StartsWith(Strip(line), TIME)
    \/ Strip(line) = <<>>

\* the terminal boundary of the table
EndsTable(line) ==
    \/ StartsWith(Lower(Strip(line)), TIME)
    \/ Strip(line) = <<>>

\* the rows collected from the lines after the header
RECURSIVE CollectRows(_)
CollectRows(ls) ==
    IF Len(ls) = 0 \/ EndsTable(Head(ls)) THEN <<>>
    ELSE <<Split(Strip(Head(ls)), ";")>> \o CollectRows(Tail(ls))

\* lines 29-52: the table that starts after the marker line m
ReadFrom(ls, m) ==
    IF m + 1 > Len(ls) THEN Failed("IndexError")
    ELSE LET header == Split(Strip(ls[m + 1]), ";")
             data == CollectRows(From(ls, m + 2))
             df == DataFrame(data, header)
         IN  IF IsFailed(df) THEN df
             ELSE ToNumeric(RenameColumn(df, POWER_INSTRUCTION, KEY))

\* a variant in which start_idx starts at 0 instead of None
read_power_instruction_table_StartZero(ls) == ReadFrom(ls, MarkerLine(ls))

read_power_instruction_table(ls) ==
    IF MarkerLine(ls) = 0 THEN Failed("MarkerNotFound")
    ELSE ReadFrom(ls, MarkerLine(ls))

(***************************************************************************)
(* pandas operations used by combine_group.                                *)
(***************************************************************************)
PyNone == [py_none |-> TRUE]

\* the characters of the model in ASCII order, for the lexical order of text
CharOrder == <<"\t", "\n", " ", "#", "-", ".", "0", "1", "2", "3", "4", "5", "6",
               "7", "8", "9", ":", ";">> \o UpperCase \o <<"_">> \o LowerCase
Ord(c) == CHOOSE i \in 1..Len(CharOrder) : CharOrder[i] = c
RECURSIVE StrLess(_, _)
StrLess(a, b) ==
    IF Len(b) = 0 THEN FALSE
    ELSE IF Len(a) = 0 THEN TRUE
    ELSE IF a[1] = b[1] THEN StrLess(Tail(a), Tail(b))
    ELSE Ord(a[1]) < Ord(b[1])

\* the order of sort_values and of the keys of an outer merge: numbers by value,
\* text lexically, missing values last
CellLess(a, b) ==
    IF IsNaN(a) \/ IsNaN(b) THEN IsNaN(b) /\ ~IsNaN(a)
    ELSE IF IsNum(a) /\ IsNum(b) THEN a.num < b.num
    ELSE IF IsText(a) /\ IsText(b) THEN StrLess(a.str, b.str)
    ELSE IsNum(a)

RECURSIVE SortCells(_)
SortCells(S) ==
    IF S = {} THEN <<>>
    ELSE LET m == CHOOSE x \in S : \A y \in S \ {x} : CellLess(x, y)
         IN  <<m>> \o SortCells(S \ {m})

RECURSIVE Flatten(_)
Flatten(ss) == IF Len(ss) = 0 THEN <<>> ELSE Head(ss) \o Flatten(Tail(ss))

KeyCount(df) == Cardinality({j \in 1..Len(df.columns) : df.columns[j] = KEY})
KeyIndex(df) == CHOOSE j \in 1..Len(df.columns) : df.columns[j] = KEY
KeyOf(df, i) == df.rows[i][KeyIndex(df)]
KeysOf(df) == {KeyOf(df, i) : i \in 1..Len(df.rows)}
\* the dtype of the key column: a column read keeps text if one value is text
KeyDtype(df) ==
    IF Len(df.rows) = 0 THEN "empty"
    ELSE IF \E i \in 1..Len(df.rows) : IsText(KeyOf(df, i)) THEN "object"
    ELSE "number"

\* the column names of an outer merge on KEY: names both sides have, other than
\* KEY, take the suffixes _x (left) and _y (right)
Suffixed(cols, other, suffix) ==
    [j \in 1..Len(cols) |->
        IF cols[j] # KEY /\ cols[j] \in Range(other) THEN cols[j] \o suffix
        ELSE cols[j]]
\* a suffix that makes two different names of one side equal is refused
SuffixClash(cols, other, suffix) ==
    \E j, k \in 1..Len(cols) :
        /\ j # k /\ cols[j] # cols[k]
        /\ Suffixed(cols, other, suffix)[j] = Suffixed(cols, other, suffix)[k]

\* the rows of a merge on KEY over the given keys, in sorted order; the rows of
\* one key are every left row with it paired with every right row with it, left
\* rows outermost, each side in its order; a side without the key contributes
\* missing values
JoinRows(left, right, over) ==
    LET rcols == Ascending({j \in 1..Len(right.columns) : right.columns[j] # KEY})
        keys == SortCells(over)
        L(k) == Ascending({i \in 1..Len(left.rows) : KeyOf(left, i) = k})
        R(k) == Ascending({i \in 1..Len(right.rows) : KeyOf(right, i) = k})
        rightPart(r) == [n \in 1..Len(rcols) |-> right.rows[r][rcols[n]]]
        rightNone == [n \in 1..Len(rcols) |-> NaN]
        leftNone(k) == [j \in 1..Len(left.columns) |->
                           IF j = KeyIndex(left) THEN k ELSE NaN]
        group(k) ==
            IF L(k) = <<>>
            THEN [n \in 1..Len(R(k)) |-> leftNone(k) \o rightPart(R(k)[n])]
            ELSE IF R(k) = <<>>
            THEN [n \in 1..Len(L(k)) |-> left.rows[L(k)[n]] \o rightNone]
            ELSE [n \in 1..(Len(L(k)) * Len(R(k))) |->
                     left.rows[L(k)[((n - 1) \div Len(R(k))) + 1]]
                         \o rightPart(R(k)[((n - 1) % Len(R(k))) + 1])]
    IN  Flatten([n \in 1..Len(keys) |-> group(keys[n])])

\* a variant with how="left": the keys of the left side only
MergeRows_LeftJoin(left, right) == JoinRows(left, right, KeysOf(left))

\* how="outer": the keys of both sides
MergeRows(left, right) == JoinRows(left, right, KeysOf(left) \cup KeysOf(right))

\* pd.merge(left, right, on="power_percentage_values", how="outer")
pd_merge(left, right) ==
    IF KeyCount(left) = 0 \/ KeyCount(right) = 0 THEN Failed("KeyError")
    ELSE IF KeyCount(left) > 1 \/ KeyCount(right) > 1 THEN Failed("ValueError")
    ELSE IF {KeyDtype(left), KeyDtype(right)} = {"object", "number"}
    THEN Failed("ValueError")
    ELSE IF \/ SuffixClash(left.columns, right.columns, <<"_", "x">>)
            \/ SuffixClash(right.columns, left.columns, <<"_", "y">>)
    THEN Failed("MergeError")
    ELSE LET rnames == Suffixed(right.columns, left.columns, <<"_", "y">>)
             rcols == Ascending({j \in 1..Len(right.columns) : right.columns[j] # KEY})
         IN  [columns |-> Suffixed(left.columns, right.columns, <<"_", "x">>)
                              \o [n \in 1..Len(rcols) |-> rnames[rcols[n]]],
              rows |-> MergeRows(left, right)]

\* a variant with keep="last"
drop_duplicates_KeepLast(df) ==
    LET kept == Ascending({i \in 1..Len(df.rows) :
                    \A h \in (i + 1)..Len(df.rows) : KeyOf(df, h) # KeyOf(df, i)})
    IN  [columns |-> df.columns, rows |-> [n \in 1..Len(kept) |-> df.rows[kept[n]]]]

\* df.drop_duplicates(subset=["power_percentage_values"]): keep="first"
drop_duplicates(df) ==
    LET kept == Ascending({i \in 1..Len(df.rows) :
                    \A h \in 1..(i - 1) : KeyOf(df, h) # KeyOf(df, i)})
    IN  [columns |-> df.columns, rows |-> [n \in 1..Len(kept) |-> df.rows[kept[n]]]]

\* a variant without the sort
sort_values_Unsorted(df) == df

\* df.sort_values("power_percentage_values") of a frame whose keys are distinct
sort_values(df) ==
    LET keys == SortCells(KeysOf(df))
    IN  [columns |-> df.columns,
         rows |-> [n \in 1..Len(keys) |->
             df.rows[CHOOSE i \in 1..Len(df.rows) : KeyOf(df, i) = keys[n]]]]

(***************************************************************************)
(* combine_group                                                           *)
(***************************************************************************)
\* a variant that leaves the column names alone
Renamed_KeepNames(fname, df) == df

\* lines 59-64: the columns other than the key take the prefix "<date>_"
Renamed(fname, df) ==
    LET date == Split(fname, "_")[1]
    IN  [columns |-> [j \in 1..Len(df.columns) |->
                         IF df.columns[j] # KEY THEN date \o <<"_">> \o df.columns[j]
                         ELSE df.columns[j]],
         rows |-> df.rows]

\* lines 57-70: the fold over dfs_dict.items(), from the first n entries
RECURSIVE Folded(_, _)
Folded(d, n) ==
    IF n = 0 THEN PyNone
    ELSE LET acc == Folded(d, n - 1)
             df_renamed == Renamed(d[n].k, d[n].v)
         IN  IF acc = PyNone THEN df_renamed
             ELSE IF IsFailed(acc) THEN acc
             ELSE pd_merge(acc, df_renamed)

\* lines 72-76
Finished(c) ==
    IF c = PyNone \/ IsFailed(c) THEN c
    ELSE IF KeyCount(c) = 0 THEN Failed("KeyError")
    ELSE IF KeyCount(c) > 1 THEN Failed("ValueError")
    ELSE sort_values(drop_duplicates(c))

combine_group(d) == Finished(Folded(d, Len(d)))

(***************************************************************************)
(* plot_wavelength_data: the body of its loop, for one table.              *)
(***************************************************************************)
\* lines 88-95: the months of the columns that contain "_power", in the order of
\* their first column; a month is the text before the first "_"
PowerColumns(df) ==
    Ascending({j \in 1..Len(df.columns) :
                  df.columns[j] # KEY /\ Contains(df.columns[j], US_POWER)})
MonthOf(col) == Split(col, "_")[1]
RECURSIVE Months(_, _)
Months(df, n) ==
    IF n = 0 THEN <<>>
    ELSE LET before == Months(df, n - 1)
             month == MonthOf(df.columns[PowerColumns(df)[n]])
         IN  IF month \in Range(before) THEN before ELSE Append(before, month)
\* int(month.split("-")[0])
MonthText(month) == Strip(Split(month, "-")[1])
MonthNum(month) == ParseInt(MonthText(month))

\* a variant that draws the months in column order
SortedMonths_Unsorted(ms) == ms

\* sorted(month_map, key=lambda x: month_map[x]): a stable sort
RECURSIVE SortedMonths(_)
SortedMonths(ms) ==
    IF Len(ms) = 0 THEN <<>>
    ELSE LET i == CHOOSE a \in 1..Len(ms) :
                      /\ \A b \in 1..Len(ms) : MonthNum(ms[a]) <= MonthNum(ms[b])
                      /\ \A b \in 1..(a - 1) : MonthNum(ms[b]) # MonthNum(ms[a])
         IN  <<ms[i]>> \o SortedMonths(SubSeq(ms, 1, i - 1) \o SubSeq(ms, i + 1, Len(ms)))

\* lines 99-100: the columns of a month, in column order
ColumnsLike(df, month, part) ==
    Ascending({j \in 1..Len(df.columns) :
                  StartsWith(df.columns[j], month) /\ Contains(df.columns[j], part)})
Column(df, j) == [i \in 1..Len(df.rows) |-> df.rows[i][j]]

\* Series.abs() of one value
Abs(c) == IF IsNum(c) /\ c.num < 0 THEN Num(0 - c.num) ELSE c

\* lines 102-108: one errorbar series
Series(df, month) ==
    LET power_col == ColumnsLike(df, month, US_POWER)[1]
        error_col == ColumnsLike(df, month, US_ERROR)[1]
    IN  [label |-> month,
         power_col |-> df.columns[power_col],
         error_col |-> df.columns[error_col],
         x |-> Column(df, KeyIndex(df)),
         y |-> Column(df, power_col),
         yerr |-> [i \in 1..Len(df.rows) |-> Abs(df.rows[i][error_col])]]

\* lines 85-108: the series drawn for one table, in drawing (legend) order
Chart(df) ==
    LET months == Months(df, Len(PowerColumns(df)))
    IN  IF \E i \in 1..Len(months) : ~IsDigits(MonthText(months[i]))
        THEN Failed("ValueError")
        ELSE LET order == SortedMonths(months)
             IN  IF order = <<>> THEN [series |-> <<>>]
                 ELSE IF ColumnsLike(df, order[1], US_ERROR) # <<>> /\ KeyCount(df) # 1
                 THEN Failed("KeyError")
                 ELSE IF \E i \in 1..Len(order) : ColumnsLike(df, order[i], US_ERROR) = <<>>
                 THEN Failed("IndexError")
                 ELSE [series |-> [i \in 1..Len(order) |-> Series(df, order[i])]]
IsChart(c) == DOMAIN c = {"series"}

(***************************************************************************)
(* Inputs of the extractor: files of up to MaxLines lines.                 *)
(***************************************************************************)
SeqsUpTo(S, n) == UNION {[1..k -> S] : k \in 0..n}

LineMarker == <<"#", " ">> \o MARKER
LineHeader == POWER_INSTRUCTION \o <<";", "p", "o", "w", "e", "r", ";", "e", "r", "r", "o", "r">>
LineRowA == <<"1", "0", ";", "5", ";", "1">>
LineRowB == <<" ", "2", "0", ";", "7", ";", "-", "2", " ">>
LineRowText == <<"x", ";", "5", ";", "1">>
LineRowShort == <<"3", "0", ";", "9">>
LineTime == <<" ", "T", "i", "m", "e", ";", "0", ";", "0">>
LineBlank == <<>>
LineSpaces == <<" ", " ">>
LinePreamble == <<"L", "a", "s", "e", "r">>

LineSet == {LineMarker, LineHeader, LineRowA, LineRowB, LineRowText, LineRowShort,
            LineTime, LineBlank, LineSpaces, LinePreamble}

GroupIdle == dfs_dict = <<>> /\ combined = NoResult /\ chart = NoResult
MainIdle ==
    /\ folder = <<>> /\ openpyxl = FALSE /\ pc = "done" /\ files = <<>>
    /\ dfs = <<>> /\ grouped = <<>> /\ combined_all = <<>> /\ nplotted = 0
    /\ written = <<>> /\ failure = "none"

ReadInit ==
    /\ lines \in SeqsUpTo(LineSet, MaxLines)
    /\ rd = NoResult
    /\ GroupIdle /\ MainIdle

\* one call of read_power_instruction_table on the file
ReadFile ==
    /\ rd = NoResult
    /\ rd' = read_power_instruction_table(lines)
    /\ UNCHANGED <<lines, groupVars, mainVars>>

ReadNext == ReadFile

SpecRead == ReadInit /\ [][ReadNext]_vars

(***************************************************************************)
(* Inputs of the merger: up to MaxFiles files of one wavelength, each a    *)
(* table as the extractor returns it for the header                        *)
(* power_instruction;power;error, with up to MaxRows rows in the group and *)
(* keys in 1..MaxKey.  The power and error values name the file and the    *)
(* row they come from.                                                     *)
(***************************************************************************)
POWER == <<"p", "o", "w", "e", "r">>
ERROR == <<"e", "r", "r", "o", "r">>
NameA == <<"0", "7", "-", "2", "5", "_", "a", "_", "4", "8", "8", ".", "c", "s", "v">>
NameB == <<"0", "8", "-", "1", "0", "_", "a", "_", "4", "8", "8", ".", "c", "s", "v">>
NameC == <<"0", "7", "-", "2", "5", "_", "b", "_", "4", "8", "8", ".", "c", "s", "v">>
GroupNames == {NameA, NameB, NameC}

PowerValue(f, i) == 100 * f + 10 * i
ErrorValue(f, i) == 0 - (100 * f + 10 * i + 1)
GroupFrame(f, keys) ==
    [columns |-> <<KEY, POWER, ERROR>>,
     rows |-> [i \in 1..Len(keys) |->
                  <<Num(keys[i]), Num(PowerValue(f, i)), Num(ErrorValue(f, i))>>]]

RECURSIVE Sum(_, _)
Sum(f, n) == IF n = 0 THEN 0 ELSE Sum(f, n - 1) + f[n]

GroupInit ==
    /\ \E n \in 0..MaxFiles :
         \E names \in {f \in [1..n -> GroupNames] : \A i, j \in 1..n : f[i] = f[j] => i = j} :
           \E lens \in {l \in [1..n -> 0..MaxRows] : Sum(l, n) <= MaxRows} :
             \E keys \in [1..Sum(lens, n) -> 1..MaxKey] :
               dfs_dict = [i \in 1..n |->
                   [k |-> names[i],
                    v |-> GroupFrame(i, [r \in 1..lens[i] |-> keys[Sum(lens, i - 1) + r]])]]
    /\ combined = NoResult /\ chart = NoResult
    /\ lines = <<>> /\ rd = NoResult /\ MainIdle

\* one call of combine_group on the group
Combine ==
    /\ combined = NoResult
    /\ combined' = combine_group(dfs_dict)
    /\ UNCHANGED <<dfs_dict, chart, readVars, mainVars>>

\* the chart plot_wavelength_data draws from the combined table
Plot ==
    /\ combined # NoResult /\ ~IsFailed(combined)
    /\ chart = NoResult
    /\ chart' = IF combined = PyNone THEN Failed("AttributeError") ELSE Chart(combined)
    /\ UNCHANGED <<dfs_dict, combined, readVars, mainVars>>

GroupNext == Combine \/ Plot

SpecGroup == GroupInit /\ [][GroupNext]_vars

(***************************************************************************)
(* main: one run over a folder of up to MaxFolder files.                   *)
(***************************************************************************)
DOT_CSV == <<".", "c", "s", "v">>
EndsWith(s, p) == Len(p) <= Len(s) /\ SubSeq(s, Len(s) - Len(p) + 1, Len(s)) = p

\* line 128: glob.glob(os.path.join(input_folder, "*.csv")), in listing order
Glob(dir) == SelectSeq(dir, LAMBDA f : EndsWith(f.name, DOT_CSV) /\ f.name[1] # ".")


\* line 139: re.search(r"_(\d+)\.csv", fname): the places where a match starts
\* and, for the leftmost, the text of group 1; <<>> stands for no match
DigitsEnd(s, i) ==
    CHOOSE j \in i..Len(s) : (\A h \in (i + 1)..j : s[h] \in Digits)
                             /\ (j = Len(s) \/ s[j + 1] \notin Digits)
MatchStarts(s) ==
    {i \in 1..Len(s) :
        /\ s[i] = "_"
        /\ DigitsEnd(s, i) > i
        /\ DigitsEnd(s, i) + Len(DOT_CSV) <= Len(s)
        /\ SubSeq(s, DigitsEnd(s, i) + 1, DigitsEnd(s, i) + Len(DOT_CSV)) = DOT_CSV}
Wavelength(s) ==
    IF MatchStarts(s) = {} THEN <<>>
    ELSE LET i == CHOOSE a \in MatchStarts(s) : \A b \in MatchStarts(s) : a <= b
         IN  SubSeq(s, i + 1, DigitsEnd(s, i))

\* a variant that loads only the files whose name carries a wavelength
Loaded_OnlyGrouped(fs) == SelectSeq(fs, LAMBDA f : Wavelength(f.name) # <<>>)

\* line 134: the files main loads, in order: every file found
Loaded(fs) == fs

\* d.setdefault(wl, {})[fname] = df on a dict of dicts
SetDefault(d, wl, fname, df) ==
    IF \E i \in 1..Len(d) : d[i].k = wl
    THEN [i \in 1..Len(d) |->
             IF d[i].k = wl THEN [k |-> wl, v |-> Append(d[i].v, [k |-> fname, v |-> df])]
             ELSE d[i]]
    ELSE Append(d, [k |-> wl, v |-> <<[k |-> fname, v |-> df]>>])

\* lines 137-142: grouped, from the first n entries of dfs
RECURSIVE Grouped(_, _)
Grouped(d, n) ==
    IF n = 0 THEN <<>>
    ELSE IF Wavelength(d[n].k) = <<>> THEN Grouped(d, n - 1)
    ELSE SetDefault(Grouped(d, n - 1), Wavelength(d[n].k), d[n].k, d[n].v)

\* line 145
CombinedAll(g) == [i \in 1..Len(g) |-> [k |-> g[i].k, v |-> combine_group(g[i].v)]]

\* sorted(combined_all.keys(), key=lambda x: int(x)): a stable sort
RECURSIVE SortedKeys(_)
SortedKeys(ks) ==
    IF Len(ks) = 0 THEN <<>>
    ELSE LET i == CHOOSE a \in 1..Len(ks) :
                      /\ \A b \in 1..Len(ks) : ParseInt(ks[a]) <= ParseInt(ks[b])
                      /\ \A b \in 1..(a - 1) : ParseInt(ks[b]) # ParseInt(ks[a])
         IN  <<ks[i]>> \o SortedKeys(SubSeq(ks, 1, i - 1) \o SubSeq(ks, i + 1, Len(ks)))

Lookup(d, key) == d[CHOOSE i \in 1..Len(d) : d[i].k = key].v
\* df.empty
Empty(df) == Len(df.rows) = 0 \/ Len(df.columns) = 0
\* lines 152-155 and 161-165: the wavelengths exported, in order
Exported(all) ==
    SelectSeq(SortedKeys([i \in 1..Len(all) |-> all[i].k]),
              LAMBDA wl : Lookup(all, wl) # PyNone /\ ~Empty(Lookup(all, wl)))

Workbook(sheets) == [kind |-> "xlsx", sheets |-> sheets]
CsvFile(wl) == [kind |-> "csv", wl |-> wl]
PlotFolder == [kind |-> "dir"]
PngFile(wl) == [kind |-> "png", wl |-> wl]

File488A == <<"0", "7", "-", "2", "5", "_", "a", "_", "4", "8", "8", ".", "c", "s", "v">>
File488B == <<"0", "8", "-", "1", "0", "_", "a", "_", "4", "8", "8", ".", "c", "s", "v">>
File561 == <<"0", "7", "-", "2", "5", "_", "a", "_", "5", "6", "1", ".", "c", "s", "v">>
FileNotes == <<"n", "o", "t", "e", "s", ".", "c", "s", "v">>
FileTxt == <<"0", "7", "-", "2", "5", "_", "a", "_", "4", "8", "8", ".", "t", "x", "t">>
FolderNames == {File488A, File488B, File561, FileNotes, FileTxt}

ContentTable == <<LinePreamble, LineMarker, LineHeader, LineRowB, LineRowA, LineTime, LineRowShort>>
ContentEmptyTable == <<LineMarker, LineHeader, LineBlank, LineRowA>>
ContentNoMarker == <<LinePreamble, LineHeader, LineRowA>>
Contents == {ContentTable, ContentEmptyTable, ContentNoMarker}

MainInit ==
    /\ \E n \in 0..MaxFolder :
         \E names \in [1..n -> FolderNames] :
           \E texts \in [1..n -> Contents] :
             /\ \A i, j \in 1..n : names[i] = names[j] => i = j
             /\ folder = [i \in 1..n |-> [name |-> names[i], lines |-> texts[i]]]
    /\ openpyxl \in BOOLEAN
    /\ pc = "glob" /\ files = <<>> /\ dfs = <<>> /\ grouped = <<>>
    /\ combined_all = <<>> /\ nplotted = 0 /\ written = <<>> /\ failure = "none"
    /\ lines = <<>> /\ rd = NoResult /\ GroupIdle

Raise(e) == pc' = "aborted" /\ failure' = e

\* lines 128-131
Discover ==
    /\ pc = "glob"
    /\ files' = Glob(folder)
    /\ pc' = IF files' = <<>> THEN "done" ELSE "load"
    /\ UNCHANGED <<folder, openpyxl, dfs, grouped, combined_all, nplotted, written,
                   failure, readVars, groupVars>>

\* line 134, one file of the dict comprehension
Load ==
    /\ pc = "load"
    /\ IF Len(dfs) = Len(Loaded(files))
       THEN pc' = "group" /\ UNCHANGED <<dfs, failure>>
       ELSE LET f == Loaded(files)[Len(dfs) + 1]
                df == read_power_instruction_table(f.lines)
            IN  IF IsFailed(df) THEN Raise(df.error) /\ UNCHANGED dfs
                ELSE /\ dfs' = Append(dfs, [k |-> f.name, v |-> df])
                     /\ UNCHANGED <<pc, failure>>
    /\ UNCHANGED <<folder, openpyxl, files, grouped, combined_all, nplotted, written,
                   readVars, groupVars>>

\* lines 137-142
Group ==
    /\ pc = "group"
    /\ grouped' = Grouped(dfs, Len(dfs))
    /\ pc' = "combine"
    /\ UNCHANGED <<folder, openpyxl, files, dfs, combined_all, nplotted, written,
                   failure, readVars, groupVars>>

\* line 145
CombineAll ==
    /\ pc = "combine"
    /\ LET all == CombinedAll(grouped)
           bad == {i \in 1..Len(all) : IsFailed(all[i].v)}
       IN  IF bad = {}
           THEN combined_all' = all /\ pc' = "export" /\ UNCHANGED failure
           ELSE /\ Raise(all[CHOOSE i \in bad : \A j \in bad : i <= j].v.error)
                /\ UNCHANGED combined_all
    /\ UNCHANGED <<folder, openpyxl, files, dfs, grouped, nplotted, written,
                   readVars, groupVars>>

\* lines 148-166.  A workbook without a sheet cannot be saved: closing the
\* ExcelWriter raises IndexError ("At least one sheet must be visible").
Export ==
    /\ pc = "export"
    /\ IF openpyxl
       THEN IF combined_all = <<>>
            THEN pc' = "makedirs" /\ UNCHANGED <<written, failure>>
            ELSE IF Exported(combined_all) = <<>>
            THEN Raise("IndexError") /\ UNCHANGED written
            ELSE /\ written' = Append(written, Workbook(Exported(combined_all)))
                 /\ pc' = "makedirs" /\ UNCHANGED failure
       ELSE /\ written' = written \o [i \in 1..Len(Exported(combined_all)) |->
                                         CsvFile(Exported(combined_all)[i])]
            /\ pc' = "makedirs" /\ UNCHANGED failure
    /\ UNCHANGED <<folder, openpyxl, files, dfs, grouped, combined_all, nplotted,
                   readVars, groupVars>>

\* line 82
MakeDirs ==
    /\ pc = "makedirs"
    /\ written' = Append(written, PlotFolder)
    /\ pc' = "plot"
    /\ UNCHANGED <<folder, openpyxl, files, dfs, grouped, combined_all, nplotted,
                   failure, readVars, groupVars>>

\* lines 84-122, one group of the loop
PlotGroup ==
    /\ pc = "plot"
    /\ IF nplotted = Len(combined_all)
       THEN pc' = "done" /\ UNCHANGED <<nplotted, written, failure>>
       ELSE LET g == combined_all[nplotted + 1]
            IN  IF IsFailed(Chart(g.v))
                THEN Raise(Chart(g.v).error) /\ UNCHANGED <<nplotted, written>>
                ELSE /\ written' = Append(written, PngFile(g.k))
                     /\ nplotted' = nplotted + 1
                     /\ UNCHANGED <<pc, failure>>
    /\ UNCHANGED <<folder, openpyxl, files, dfs, grouped, combined_all,
                   readVars, groupVars>>

MainNext == Discover \/ Load \/ Group \/ CombineAll \/ Export \/ MakeDirs \/ PlotGroup

SpecMain == MainInit /\ [][MainNext]_vars

(***************************************************************************)
(* Properties of the extractor, under SpecRead.                            *)
(***************************************************************************)
FieldCount(l) == 1 + Cardinality({i \in 1..Len(l) : l[i] = ";"})

\* a blank line, or a line whose text begins with "time" in any letter case
IsBoundary(l) ==
    LET t == Strip(l)
    IN  t = <<>> \/ (Len(t) >= Len(TIME) /\ Lower(SubSeq(t, 1, Len(TIME))) = TIME)

HasMarker(l) ==
    \E i \in 1..(Len(l) - Len(MARKER) + 1) : \A k \in 1..Len(MARKER) : l[i + k - 1] = MARKER[k]
FirstMarker == CHOOSE i \in 1..Len(lines) :
                   HasMarker(lines[i]) /\ \A j \in 1..(i - 1) : ~HasMarker(lines[j])
AfterHeader == SubSeq(lines, FirstMarker + 2, Len(lines))
\* N: the lines after the header and before the first boundary or the end of file
DataRowCount ==
    LET stop == {i \in 1..Len(AfterHeader) : IsBoundary(AfterHeader[i])}
    IN  IF stop = {} THEN Len(AfterHeader)
        ELSE (CHOOSE i \in stop : \A j \in stop : i <= j) - 1
WellFormedFile ==
    /\ \E i \in 1..Len(lines) : HasMarker(lines[i])
    /\ FirstMarker + 1 <= Len(lines)
    /\ \A i \in 1..DataRowCount :
           FieldCount(AfterHeader[i]) = FieldCount(lines[FirstMarker + 1])

\* C1: a file with the marker, a header and N well-formed data rows ended by a
\* blank line, a line beginning with "time" or the end of file yields a table of
\* exactly N rows, in file order, with the header's number of columns.
C1_ReadReturnsEveryRow ==
    (rd # NoResult /\ WellFormedFile) =>
        /\ IsFrame(rd)
        /\ Len(rd.rows) = DataRowCount
        /\ Len(rd.columns) = FieldCount(lines[FirstMarker + 1])
        /\ \A i \in 1..DataRowCount :
               /\ Len(rd.rows[i]) = Len(rd.columns)
               /\ \A j \in 1..Len(rd.columns) :
                      LET field == Text(Split(Strip(AfterHeader[i]), ";")[j])
                      IN  \/ rd.rows[i][j] = field
                          \/ Parses(field) /\ rd.rows[i][j] = Parsed(field)

C1_Witness ==
    /\ rd # NoResult /\ WellFormedFile /\ IsFrame(rd)
    /\ Len(rd.rows) = 2 /\ rd.rows[1] # rd.rows[2]
    /\ Len(rd.columns) = 3

\* C2: a file in which no line contains the marker phrase makes the extractor
\* fail with the marker-not-found error; it never returns a table for it.
C2_NoMarkerFails ==
    (rd # NoResult /\ \A i \in 1..Len(lines) : ~HasMarker(lines[i])) =>
        rd = Failed("MarkerNotFound")

C2_Witness ==
    /\ rd = Failed("MarkerNotFound")
    /\ Len(lines) >= 2 /\ lines[1] = LineHeader /\ lines[2] = LineRowA

(***************************************************************************)
(* Properties of the merger and of the chart, under SpecGroup.  The tables *)
(* of the group have the columns key, power, error, so the table of the    *)
(* i-th file folded supplies the columns 2i and 2i+1 of the merged table.  *)
(***************************************************************************)
Source(i) == dfs_dict[i].v
SourceKeys(i) == {Source(i).rows[r][1] : r \in 1..Len(Source(i).rows)}
FirstRowWith(i, key) ==
    CHOOSE r \in 1..Len(Source(i).rows) :
        /\ Source(i).rows[r][1] = key
        /\ \A q \in 1..(r - 1) : Source(i).rows[q][1] # key
MergedKeys == {combined.rows[r][1] : r \in 1..Len(combined.rows)}
\* the label of a file: its name up to the first underscore
LabelOf(fname) ==
    SubSeq(fname, 1, (CHOOSE i \in 1..Len(fname) :
                          fname[i] = "_" /\ \A j \in 1..(i - 1) : fname[j] # "_") - 1)
Merged == combined # NoResult /\ Len(dfs_dict) >= 1

\* C3: the keys of the merged table of a non-empty group are exactly the keys
\* of its input tables, and in the row of a key a source lacks, the columns of
\* that source are empty.
C3_KeysAreTheUnion ==
    Merged =>
        /\ IsFrame(combined)
        /\ Len(combined.columns) = 1 + 2 * Len(dfs_dict)
        /\ combined.columns[1] = KEY
        /\ MergedKeys = UNION {SourceKeys(i) : i \in 1..Len(dfs_dict)}
        /\ \A r \in 1..Len(combined.rows) : \A i \in 1..Len(dfs_dict) :
               IF combined.rows[r][1] \in SourceKeys(i)
               THEN IsNum(combined.rows[r][2 * i]) /\ IsNum(combined.rows[r][2 * i + 1])
               ELSE combined.rows[r][2 * i] = NaN /\ combined.rows[r][2 * i + 1] = NaN

C3_Witness ==
    /\ Merged /\ IsFrame(combined) /\ Len(dfs_dict) = 2
    /\ SourceKeys(1) = {Num(1), Num(2)} /\ SourceKeys(2) = {Num(3)}
    /\ Len(combined.rows) = 3
    /\ combined.rows[3][2] = NaN /\ combined.rows[1][4] = NaN

\* C4: the rows of a merged table are in strictly ascending order of the key,
\* whatever the order of the rows in the files and of the files in the fold.
C4_RowsAscendByKey ==
    (Merged /\ IsFrame(combined)) =>
        \A r \in 1..(Len(combined.rows) - 1) :
            combined.rows[r][1].num < combined.rows[r + 1][1].num

C4_Witness ==
    /\ Merged /\ IsFrame(combined) /\ Len(dfs_dict) = 2
    /\ Len(Source(1).rows) = 1 /\ Len(Source(2).rows) = 2
    /\ Source(1).rows[1][1] = Num(3) /\ Source(2).rows[1][1] = Num(2)
    /\ Source(2).rows[2][1] = Num(1)
    /\ Len(combined.rows) = 3

\* C5: a key that occurs twice in an input table has exactly one row in the
\* merged table, and that row carries, for every source, the values of the
\* source's first row with the key.
C5_FirstOccurrenceWins ==
    (Merged /\ IsFrame(combined)) =>
        /\ \A r, q \in 1..Len(combined.rows) :
               combined.rows[r][1] = combined.rows[q][1] => r = q
        /\ \A r \in 1..Len(combined.rows) : \A i \in 1..Len(dfs_dict) :
               combined.rows[r][1] \in SourceKeys(i) =>
                   LET first == Source(i).rows[FirstRowWith(i, combined.rows[r][1])]
                   IN  /\ combined.rows[r][2 * i] = first[2]
                       /\ combined.rows[r][2 * i + 1] = first[3]

C5_Witness ==
    /\ Merged /\ IsFrame(combined) /\ Len(dfs_dict) = 2
    /\ Len(Source(1).rows) = 1 /\ Len(Source(2).rows) = 2
    /\ Source(2).rows[1][1] = Source(2).rows[2][1]
    /\ Source(1).rows[1][1] = Source(2).rows[1][1]
    /\ Len(combined.rows) = 1
    /\ combined.rows[1][4] = Source(2).rows[1][2]

\* C6, as stated: merging a group of one table returns a table with the same
\* columns, rows and values as that table.
C6_SingleTableUnchanged ==
    (combined # NoResult /\ Len(dfs_dict) = 1) => combined = Source(1)

\* C6, amended: merging a group of one table returns that table with the key
\* column keeping its name, every other column renamed to <label>_<column>, and
\* the rows reduced to the first row of each key, in ascending order of the key.
C6_SingleTableRenamedAndSorted ==
    (combined # NoResult /\ Len(dfs_dict) = 1) =>
        /\ IsFrame(combined)
        /\ combined.columns =
               <<KEY, LabelOf(dfs_dict[1].k) \o <<"_">> \o POWER,
                 LabelOf(dfs_dict[1].k) \o <<"_">> \o ERROR>>
        /\ MergedKeys = SourceKeys(1)
        /\ \A r \in 1..Len(combined.rows) :
               combined.rows[r] = Source(1).rows[FirstRowWith(1, combined.rows[r][1])]
        /\ \A r \in 1..(Len(combined.rows) - 1) :
               combined.rows[r][1].num < combined.rows[r + 1][1].num

C6_Witness ==
    /\ combined # NoResult /\ Len(dfs_dict) = 1 /\ IsFrame(combined)
    /\ Len(Source(1).rows) = 3 /\ Len(combined.rows) = 2
    /\ Source(1).rows[1][1].num > Source(1).rows[2][1].num
    /\ combined.columns # Source(1).columns

\* C8: the chart of a group holds exactly one series per source file, also when
\* two files share a label, and each series plots the value and error columns
\* that came from its own file.
C8_OneSeriesPerFile ==
    (chart # NoResult /\ IsChart(chart)) =>
        /\ Len(chart.series) = Len(dfs_dict)
        /\ \A i \in 1..Len(dfs_dict) : \E s \in 1..Len(chart.series) :
               /\ chart.series[s].label = LabelOf(dfs_dict[i].k)
               /\ chart.series[s].y = [r \in 1..Len(combined.rows) |-> combined.rows[r][2 * i]]
               /\ chart.series[s].yerr =
                      [r \in 1..Len(combined.rows) |-> Abs(combined.rows[r][2 * i + 1])]

\* the number before the first "-" of a label
LeadingNumber(label) ==
    ParseInt(SubSeq(label, 1, (CHOOSE i \in 1..Len(label) :
                                   label[i] = "-" /\ \A j \in 1..(i - 1) : label[j] # "-") - 1))
Labels == [s \in 1..Len(chart.series) |-> chart.series[s].label]

\* C9: the series of a chart are drawn in ascending order of the number that
\* leads their label, whatever the order of the files; 07-25 comes before 08-10.
C9_SeriesAscendByMonth ==
    (chart # NoResult /\ IsChart(chart)) =>
        /\ \A s \in 1..(Len(Labels) - 1) :
               LeadingNumber(Labels[s]) <= LeadingNumber(Labels[s + 1])
        /\ Range(Labels) = {LabelOf(NameA), LabelOf(NameB)} =>
               Labels = <<LabelOf(NameA), LabelOf(NameB)>>

C9_Witness ==
    /\ chart # NoResult /\ IsChart(chart) /\ Len(dfs_dict) = 2
    /\ dfs_dict[1].k = NameB /\ dfs_dict[2].k = NameA
    /\ Labels = <<LabelOf(NameA), LabelOf(NameB)>>
    /\ Len(combined.rows) >= 2

(***************************************************************************)
(* Properties of a run, under SpecMain.                                    *)
(***************************************************************************)
Outputs(kind) == {i \in 1..Len(written) : written[i].kind = kind}
GroupTable(wl) == combined_all[CHOOSE i \in 1..Len(combined_all) : combined_all[i].k = wl].v
HasRows(df) == Len(df.rows) > 0

\* C7: a group whose merged table is empty gets no sheet, no delimited file and
\* no chart image, and a finished run has written exactly one image for each
\* non-empty group.
C7_EmptyGroupsSkipped ==
    /\ \A i \in Outputs("png") : HasRows(GroupTable(written[i].wl))
    /\ \A i \in Outputs("csv") : HasRows(GroupTable(written[i].wl))
    /\ \A i \in Outputs("xlsx") : \A n \in 1..Len(written[i].sheets) :
           HasRows(GroupTable(written[i].sheets[n]))
    /\ pc = "done" =>
           \A g \in 1..Len(combined_all) :
               HasRows(combined_all[g].v) =>
                   Cardinality({i \in Outputs("png") : written[i].wl = combined_all[g].k}) = 1

IsCsvName(name) ==
    Len(name) >= 4 /\ name[Len(name) - 3] = "." /\ name[Len(name) - 2] = "c"
                   /\ name[Len(name) - 1] = "s" /\ name[Len(name)] = "v"
Found == {i \in 1..Len(folder) : IsCsvName(folder[i].name)}
LacksMarker(i) == \A n \in 1..Len(folder[i].lines) : ~HasMarker(folder[i].lines[n])

\* C10: nothing is written before every file found has been parsed, and when a
\* file found lacks the marker, wherever it is in the listing and whatever its
\* name, the run ends in the parse stage on the marker error with no output.
C10_NoOutputBeforeLastParse ==
    /\ written # <<>> => pc \notin {"glob", "load"} /\ Len(dfs) = Cardinality(Found)
    /\ (\E i \in Found : LacksMarker(i)) =>
           /\ written = <<>>
           /\ pc \in {"glob", "load", "aborted"}
           /\ pc = "aborted" => failure = "MarkerNotFound" /\ Len(dfs) < Cardinality(Found)

C10_Witness ==
    /\ pc = "aborted" /\ failure = "MarkerNotFound" /\ written = <<>>
    /\ Len(folder) = 3 /\ Len(dfs) = 2
    /\ folder[3].name = FileNotes /\ LacksMarker(3)

====
